---- MODULE Spec2Model ----
(***************************************************************************)
(* A model of rust-easyjack's Client (src/src/client.rs) together with the *)
(* handler traits of src/src/callbackhandler.rs.                           *)
(*                                                                         *)
(* The JACK server is the environment: every foreign call of the Client    *)
(* is answered with a reply drawn from a small set, and the server keeps   *)
(* the context pointer of each callback slot it accepted.  The heap keeps  *)
(* one cell per Box::new, counting how often the cell was released.        *)
(* Each public method of Client is one action; `calls` is the list of      *)
(* foreign calls the last method issued (what the test stub counts with    *)
(* jco_get_num_calls / jgcn_get_num_calls) and `last` is its record:       *)
(* arguments, the server's replies and the value it returned.              *)
(***************************************************************************)
EXTENDS Integers, Sequences, FiniteSets, TLC

\* ------------------------------------------------------------------ bounds
\* Longest client / server name the model tries (names are byte strings).
MaxNameLen == 2
\* Number of Box::new allocations one behaviour may perform.
MaxAllocs == 2
\* Longest callbacks_of_interest() list a metadata handler returns.
MaxInterest == 2

\* --------------------------------------------------------- bit-flag types
\* jack_status_t bits used through types::status
FAILURE == 1
NAME_NOT_UNIQUE == 4
INIT_FAILURE == 256
\* every bit the Status decoder knows (JackFailure .. JackClientZombie)
StatusAllBits == 8191
\* jack_options_t bits used through types::options
NO_START_SERVER == 1
USE_EXACT_NAME == 2
JackServerName == 4

RECURSIVE BitAnd(_, _)
BitAnd(a, b) ==
    IF a = 0 \/ b = 0 THEN 0
    ELSE (a % 2) * (b % 2) + 2 * BitAnd(a \div 2, b \div 2)

RECURSIVE BitOr(_, _)
BitOr(a, b) ==
    IF a = 0 THEN b
    ELSE IF b = 0 THEN a
    ELSE (IF a % 2 = 1 \/ b % 2 = 1 THEN 1 ELSE 0) + 2 * BitOr(a \div 2, b \div 2)

\* Option<T>
None == [some |-> FALSE]
Some(v) == [some |-> TRUE, v |-> v]

\* status::Status::from_bits: None when a bit outside the known flags is set
Status_from_bits(bits) ==
    IF BitAnd(bits, StatusAllBits) = bits THEN Some(bits) ELSE None

\* Status::contains
Status_contains(s, flag) == BitAnd(s, flag) = flag

\* ---------------------------------------------------------------- strings
\* A Rust string is a sequence of non-zero bytes; a C string is the same
\* bytes followed by the terminating 0.
NameBytes == {1, 2}

Strings == UNION {[1..n -> NameBytes] : n \in 1..MaxNameLen}

\* CString::new(s).unwrap(): append the terminator
CString_new(s) == s \o <<0>>

\* index of the first 0 byte of a C buffer
RECURSIVE FirstNul(_, _)
FirstNul(buf, i) ==
    IF i > Len(buf) \/ buf[i] = 0 THEN i ELSE FirstNul(buf, i + 1)

\* String::from(CStr::from_ptr(p).to_str().unwrap()): the bytes before the 0
CStr_to_String(buf) == SubSeq(buf, 1, FirstNul(buf, 1) - 1)

\* the null char pointer (a variadic argument that was not passed)
NullStr == <<>>

\* ------------------------------------------------------- server's replies
NullHandle == 0
\* what jack_client_open may return: null or a connection handle
HandleReplies == {NullHandle, 1, 2}
\* status words the server may write: recognised ones and two with an
\* unknown bit (8192)
StatusReplies == {0, FAILURE, NAME_NOT_UNIQUE, FAILURE + NAME_NOT_UNIQUE,
                  INIT_FAILURE, INIT_FAILURE + FAILURE,
                  8192, 8192 + NAME_NOT_UNIQUE}
\* names the server may hold for the client
ServerNames == {CString_new(s) : s \in Strings}
\* Options values a caller may pass
OptionValues == {0, NO_START_SERVER, USE_EXACT_NAME,
                 NO_START_SERVER + USE_EXACT_NAME, JackServerName,
                 JackServerName + NO_START_SERVER}
\* int results of the callback-installing, close calls
IntReplies == {0, -1}

\* ------------------------------------------------------------------ state
VARIABLES
    client_state,      \* "unopened" | "refused" | "live" | "dropped"
    c_client,          \* Client.c_client
    process_handler,   \* Client.process_handler: None or Some(box pointer)
    metadata_handler,  \* Client.metadata_handler: None or Some(box pointer)
    heap,              \* heap[p]: the cell of the p-th Box::new
    srv_name,          \* the name the server holds for the client (C string)
    srv_cb,            \* the context pointer the server holds per slot
    srv_closed,        \* jack_client_close succeeded on the handle
    accepted,          \* pointers the server accepted as process context
    handles,           \* raw port identifiers of the port handles in use
    frame,             \* the method in progress, statement by statement
    srv_active,        \* jack_activate succeeded on the handle
    rt,                \* the server's realtime thread in the trampoline
    calls,             \* foreign calls issued by the last method
    last               \* the last method: arguments, replies, result

vars == <<client_state, c_client, process_handler, metadata_handler, heap,
          srv_name, srv_cb, srv_closed, accepted, handles, frame,
          srv_active, rt, calls, last>>

NullPtr == 0
\* no method is between two of its statements
Idle == [pc |-> "idle"]
\* the realtime thread outside the trampoline, no CallbackContext made yet
Waiting == [pc |-> "waiting", made |-> 0]
Slots == {"process", "sample_rate", "port_connect", "xrun"}

\* Result values
Ok(v) == [kind |-> "Ok", v |-> v]
Err(e) == [kind |-> "Err", e |-> e]
Panic == [kind |-> "Panic"]

\* before Client::open / Client::open_connection_to is called
Init ==
    /\ client_state = "unopened"
    /\ srv_active = FALSE
    /\ rt = Waiting
    /\ handles = {}
    /\ frame = Idle
    /\ c_client = NullHandle
    /\ process_handler = None
    /\ metadata_handler = None
    /\ heap = <<>>
    /\ srv_name = NullStr
    /\ srv_cb = [s \in Slots |-> NullPtr]
    /\ srv_closed = FALSE
    /\ accepted = {}
    /\ calls = <<>>
    /\ last = [op |-> "none"]

\* ------------------------------------------------------------------- open
\* get_name answering with the name the Client had when it was opened
get_name_cached(raw, held) ==
    [name |-> <<1>>,
     call |-> [fn |-> "jack_get_client_name", client |-> raw]]

\* Client::get_name on connection `raw` while the server holds `held`:
\* one jack_get_client_name(raw), the reply copied into a String.
get_name(raw, held) ==
    [name |-> CStr_to_String(held),
     call |-> [fn |-> "jack_get_client_name", client |-> raw]]

\* open_helper reporting the generic FAILURE flag in place of the server's
\* status (as the port and callback methods do)
open_helper_generic_failure(cl, status, name, held) ==
    LET st == Status_from_bits(status) IN
    IF ~st.some
    THEN [result |-> Panic, made |-> FALSE, calls |-> <<>>]
    ELSE IF cl = NullHandle
    THEN [result |-> Err(FAILURE), made |-> FALSE, calls |-> <<>>]
    ELSE LET q == get_name(cl, held)
             nnu == Status_contains(st.v, NAME_NOT_UNIQUE)
         IN [result |-> Ok([c_client |-> cl,
                            name |-> IF nnu THEN q.name ELSE name]),
             made |-> TRUE,
             calls |-> IF nnu THEN <<q.call>> ELSE <<>>]

\* open_helper trusting the requested name: it never asks the server
open_helper_never_queries(cl, status, name, held) ==
    LET st == Status_from_bits(status) IN
    IF ~st.some
    THEN [result |-> Panic, made |-> FALSE, calls |-> <<>>]
    ELSE IF cl = NullHandle
    THEN [result |-> Err(st.v), made |-> FALSE, calls |-> <<>>]
    ELSE [result |-> Ok([c_client |-> cl, name |-> name]),
          made |-> TRUE, calls |-> <<>>]

\* open_helper asking for the name before it looks at the handle
open_helper_queries_first(cl, status, name, held) ==
    LET st == Status_from_bits(status)
        q == get_name(cl, held)
    IN
    IF ~st.some
    THEN [result |-> Panic, made |-> FALSE, calls |-> <<>>]
    ELSE LET nnu == Status_contains(st.v, NAME_NOT_UNIQUE)
             qs == IF nnu THEN <<q.call>> ELSE <<>>
         IN IF cl = NullHandle
            THEN [result |-> Err(st.v), made |-> FALSE, calls |-> qs]
            ELSE [result |-> Ok([c_client |-> cl,
                                 name |-> IF nnu THEN q.name ELSE name]),
                  made |-> TRUE, calls |-> qs]

\* open_helper asking the server for the name on every successful open
open_helper_always_queries(cl, status, name, held) ==
    LET st == Status_from_bits(status) IN
    IF ~st.some
    THEN [result |-> Panic, made |-> FALSE, calls |-> <<>>]
    ELSE IF cl = NullHandle
    THEN [result |-> Err(st.v), made |-> FALSE, calls |-> <<>>]
    ELSE LET q == get_name(cl, held)
         IN [result |-> Ok([c_client |-> cl, name |-> q.name]),
             made |-> TRUE, calls |-> <<q.call>>]

\* Client::open_helper(cl, status, name); `held` is the server's name for
\* the handle, read only if get_name is called.
open_helper(cl, status, name, held) ==
    LET st == Status_from_bits(status) IN
    IF ~st.some
    THEN [result |-> Panic, made |-> FALSE, calls |-> <<>>]
    ELSE IF cl = NullHandle
    THEN [result |-> Err(st.v), made |-> FALSE, calls |-> <<>>]
    ELSE LET q == get_name(cl, held)
             nnu == Status_contains(st.v, NAME_NOT_UNIQUE)
         IN [result |-> Ok([c_client |-> cl,
                            name |-> IF nnu THEN q.name ELSE name]),
             made |-> TRUE,
             calls |-> IF nnu THEN <<q.call>> ELSE <<>>]

\* the jack_client_open call Client::open issues
open_call(name, opts) ==
    [fn |-> "jack_client_open", client_name |-> CString_new(name),
     options |-> opts, server_name |-> NullStr]

\* open_connection_to passing the caller's options as they are
open_connection_to_call_plain_opts(clientname, servername, opts) ==
    [fn |-> "jack_client_open", client_name |-> CString_new(clientname),
     options |-> opts, server_name |-> CString_new(servername)]

\* the jack_client_open call Client::open_connection_to issues
open_connection_to_call(clientname, servername, opts) ==
    [fn |-> "jack_client_open", client_name |-> CString_new(clientname),
     options |-> BitOr(opts, JackServerName),
     server_name |-> CString_new(servername)]

\* The common tail of both open paths: the server answered (cl, status) and
\* holds `held` as the client's name if it returned a handle.
Opened(op, name, opts, sname, call, cl, status, held) ==
    LET h == open_helper(cl, status, name, held) IN
    /\ calls' = <<call>> \o h.calls
    /\ last' = [op |-> op, name |-> name, opts |-> opts, server |-> sname,
                cl |-> cl, status |-> status, held |-> held,
                result |-> h.result]
    /\ client_state' = IF h.made THEN "live" ELSE "refused"
    /\ c_client' = IF h.made THEN h.result.v.c_client ELSE c_client
    /\ srv_name' = IF cl # NullHandle THEN held ELSE srv_name
    /\ UNCHANGED <<process_handler, metadata_handler, heap, srv_cb,
                   srv_closed, accepted>>
    /\ UNCHANGED <<handles, frame>>
    /\ UNCHANGED <<srv_active, rt>>

\* the server holds a name for the client only if it made the connection
HeldNames(cl) == IF cl = NullHandle THEN {NullStr} ELSE ServerNames

Open ==
    /\ client_state = "unopened"
    /\ \E name \in Strings, opts \in OptionValues, cl \in HandleReplies,
          status \in StatusReplies :
       \E held \in HeldNames(cl) :
          Opened("open", name, opts, NullStr, open_call(name, opts),
                 cl, status, held)

OpenConnectionTo ==
    /\ client_state = "unopened"
    /\ \E name \in Strings, servername \in Strings, opts \in OptionValues,
          cl \in HandleReplies, status \in StatusReplies :
       \E held \in HeldNames(cl) :
          Opened("open_connection_to", name, opts, servername,
                 open_connection_to_call(name, servername, opts),
                 cl, status, held)

\* ------------------------------------------------------------------- heap
\* Box::new(handler) followed by Box::into_raw: a fresh cell, not yet released
Box_new(hp) == Append(hp, [frees |-> 0])

\* dropping a Box releases its cell
Box_drop(hp, p) == [hp EXCEPT ![p].frees = @ + 1]

\* dropping an Option<Box<_>> field (on assignment over it or on Client drop)
Option_drop(hp, field) == IF field.some THEN Box_drop(hp, field.v) ELSE hp

\* ----------------------------------------------------------- the server
\* jack_set_*_callback(client, trampoline, ctx) answered with `ret`: the
\* server keeps ctx for the slot when it accepts (ret = 0) and keeps what it
\* had when it refuses.
jack_set_callback(cb, slot, ctx, ret) ==
    IF ret = 0 THEN [cb EXCEPT ![slot] = ctx] ELSE cb

\* the slot each installing call writes
SlotOf(fn) ==
    CASE fn = "jack_set_process_callback" -> "process"
      [] fn = "jack_set_sample_rate_callback" -> "sample_rate"
      [] fn = "jack_set_port_connect_callback" -> "port_connect"
      [] fn = "jack_set_xrun_callback" -> "xrun"

\* the server's slots after it answered the installing calls of one method
RECURSIVE Server_install(_, _)
Server_install(cb, cs) ==
    IF cs = <<>> THEN cb
    ELSE Server_install(
             jack_set_callback(cb, SlotOf(Head(cs).fn), Head(cs).ctx,
                               Head(cs).ret),
             Tail(cs))

\* ---------------------------------------------------- set_process_handler
\* set_process_handler overwriting the field without releasing the box the
\* field held (the old box forgotten, as after mem::forget or ptr::write)
set_process_handler_leaks_old(cl, ph, hp, ret) ==
    LET ptr == Len(hp) + 1
        hp1 == Box_new(hp)
        call == [fn |-> "jack_set_process_callback", client |-> cl,
                 ctx |-> ptr, ret |-> ret]
    IN IF ret # 0
       THEN [result |-> Err(FAILURE), process_handler |-> ph,
             heap |-> hp1, ptr |-> ptr, calls |-> <<call>>]
       ELSE [result |-> Ok(<<>>), process_handler |-> Some(ptr),
             heap |-> hp1, ptr |-> ptr, calls |-> <<call>>]

\* set_process_handler recording the box before it looks at the server's
\* answer
set_process_handler_records_refused(cl, ph, hp, ret) ==
    LET ptr == Len(hp) + 1
        hp1 == Box_new(hp)
        call == [fn |-> "jack_set_process_callback", client |-> cl,
                 ctx |-> ptr, ret |-> ret]
    IN [result |-> IF ret # 0 THEN Err(FAILURE) ELSE Ok(<<>>),
        process_handler |-> Some(ptr),
        heap |-> Option_drop(hp1, ph), ptr |-> ptr, calls |-> <<call>>]

\* set_process_handler taking the old handler out of the field before the
\* call, and putting nothing back when the server refuses
set_process_handler_clears_on_refusal(cl, ph, hp, ret) ==
    LET ptr == Len(hp) + 1
        hp1 == Box_new(hp)
        call == [fn |-> "jack_set_process_callback", client |-> cl,
                 ctx |-> ptr, ret |-> ret]
    IN IF ret # 0
       THEN [result |-> Err(FAILURE), process_handler |-> None,
             heap |-> Option_drop(hp1, ph), ptr |-> ptr, calls |-> <<call>>]
       ELSE [result |-> Ok(<<>>), process_handler |-> Some(ptr),
             heap |-> Option_drop(hp1, ph), ptr |-> ptr, calls |-> <<call>>]

\* Client::set_process_handler(handler) on a Client whose process_handler
\* field is `ph`, with heap `hp`, the server answering `ret`.
set_process_handler(cl, ph, hp, ret) ==
    LET ptr == Len(hp) + 1
        hp1 == Box_new(hp)
        call == [fn |-> "jack_set_process_callback", client |-> cl,
                 ctx |-> ptr, ret |-> ret]
    IN IF ret # 0
       THEN [result |-> Err(FAILURE), process_handler |-> ph,
             heap |-> hp1, ptr |-> ptr, calls |-> <<call>>]
       ELSE [result |-> Ok(<<>>), process_handler |-> Some(ptr),
             heap |-> Option_drop(hp1, ph), ptr |-> ptr, calls |-> <<call>>]

SetProcessHandler ==
    /\ client_state = "live"
    /\ Len(heap) < MaxAllocs
    /\ \E ret \in IntReplies :
          LET r == set_process_handler(c_client, process_handler, heap, ret)
          IN /\ process_handler' = r.process_handler
             /\ heap' = r.heap
             /\ srv_cb' = Server_install(srv_cb, r.calls)
             /\ accepted' = IF ret = 0 THEN accepted \cup {r.ptr}
                            ELSE accepted
             /\ calls' = r.calls
             /\ last' = [op |-> "set_process_handler", ret |-> ret,
                         ptr |-> r.ptr, before |-> process_handler,
                         allocs |-> Len(r.heap) - Len(heap),
                         result |-> r.result]
    /\ UNCHANGED <<client_state, c_client, metadata_handler, srv_name,
                   srv_closed>>
    /\ UNCHANGED <<handles, frame>>
    /\ UNCHANGED <<srv_active, rt>>

\* --------------------------------------------------- set_metadata_handler
\* enum MetadataHandlers
MetadataHandlers ==
    {"SampleRate", "PortConnect", "Shutdown", "Freewheel", "BufferSize",
     "ClientRegistration", "PortRegistration", "PortRename", "GraphOrder",
     "Xrun"}

\* The kinds the handlers of the model ask for: the three implemented ones
\* and one of the seven that reach the `_` arm of the match.
RequestedKinds == {"SampleRate", "PortConnect", "Xrun", "Shutdown"}

\* what callbacks_of_interest() may return
InterestLists == UNION {[1..n -> RequestedKinds] : n \in 0..MaxInterest}

\* the arms of the match in set_metadata_handler: the installing call of an
\* implemented kind; any other kind reaches `_ => unimplemented!()`
MatchArm(h) ==
    CASE h = "SampleRate" -> Some("jack_set_sample_rate_callback")
      [] h = "PortConnect" -> Some("jack_set_port_connect_callback")
      [] h = "Xrun" -> Some("jack_set_xrun_callback")
      [] OTHER -> None

\* the loop without its `if ret != 0 { break; }`
RECURSIVE metadata_loop_no_break(_, _, _, _, _, _)
metadata_loop_no_break(cl, cbs, rets, ptr, i, acc) ==
    IF i > Len(cbs) THEN acc
    ELSE LET arm == MatchArm(cbs[i]) IN
         IF ~arm.some THEN [acc EXCEPT !.panicked = TRUE]
         ELSE LET call == [fn |-> arm.v, client |-> cl, ctx |-> ptr,
                           ret |-> rets[i]]
                  acc1 == [ret |-> rets[i], calls |-> Append(acc.calls, call),
                           panicked |-> FALSE]
              IN metadata_loop_no_break(cl, cbs, rets, ptr, i + 1, acc1)

\* the loop handing each kind a context pointer of its own
RECURSIVE metadata_loop_context_per_kind(_, _, _, _, _, _)
metadata_loop_context_per_kind(cl, cbs, rets, ptr, i, acc) ==
    IF i > Len(cbs) THEN acc
    ELSE LET arm == MatchArm(cbs[i]) IN
         IF ~arm.some THEN [acc EXCEPT !.panicked = TRUE]
         ELSE LET call == [fn |-> arm.v, client |-> cl, ctx |-> ptr + i - 1,
                           ret |-> rets[i]]
                  acc1 == [ret |-> rets[i], calls |-> Append(acc.calls, call),
                           panicked |-> FALSE]
              IN IF rets[i] # 0 THEN acc1
                 ELSE metadata_loop_context_per_kind(cl, cbs, rets, ptr,
                                                     i + 1, acc1)

\* `for h in cbs { ret = match h {...}; if ret != 0 { break; } }` from the
\* i-th element on; rets[i] is the server's answer to the i-th element's call
RECURSIVE metadata_loop(_, _, _, _, _, _)
metadata_loop(cl, cbs, rets, ptr, i, acc) ==
    IF i > Len(cbs) THEN acc
    ELSE LET arm == MatchArm(cbs[i]) IN
         IF ~arm.some THEN [acc EXCEPT !.panicked = TRUE]
         ELSE LET call == [fn |-> arm.v, client |-> cl, ctx |-> ptr,
                           ret |-> rets[i]]
                  acc1 == [ret |-> rets[i], calls |-> Append(acc.calls, call),
                           panicked |-> FALSE]
              IN IF rets[i] # 0 THEN acc1
                 ELSE metadata_loop(cl, cbs, rets, ptr, i + 1, acc1)

\* Client::set_metadata_handler(handler), the handler's
\* callbacks_of_interest() being `cbs`
set_metadata_handler(cl, mh, hp, cbs, rets) ==
    LET ptr == Len(hp) + 1
        hp1 == Box_new(hp)
        lp == metadata_loop(cl, cbs, rets, ptr, 1,
                            [ret |-> 0, calls |-> <<>>, panicked |-> FALSE])
    IN IF lp.panicked
       THEN [result |-> Panic, metadata_handler |-> mh, heap |-> hp1,
             ptr |-> ptr, calls |-> lp.calls]
       ELSE IF lp.ret # 0
       THEN [result |-> Err(FAILURE), metadata_handler |-> mh, heap |-> hp1,
             ptr |-> ptr, calls |-> lp.calls]
       ELSE [result |-> Ok(<<>>), metadata_handler |-> Some(ptr),
             heap |-> Option_drop(hp1, mh), ptr |-> ptr, calls |-> lp.calls]

\* The server's answers to n installing calls in a row.  The loop stops at
\* the first refusal, so the answers after it are never asked for: a sequence
\* of answers is told by where (if anywhere) the first refusal is.
ServerAnswers(n) ==
    {[i \in 1..n |-> IF i = k THEN -1 ELSE 0] : k \in 0..n}

SetMetadataHandler ==
    /\ client_state = "live"
    /\ Len(heap) < MaxAllocs
    /\ \E cbs \in InterestLists :
       \E rets \in ServerAnswers(Len(cbs)) :
          LET r == set_metadata_handler(c_client, metadata_handler, heap,
                                        cbs, rets)
          IN /\ metadata_handler' = r.metadata_handler
             /\ heap' = r.heap
             /\ srv_cb' = Server_install(srv_cb, r.calls)
             /\ calls' = r.calls
             /\ last' = [op |-> "set_metadata_handler", cbs |-> cbs,
                         ptr |-> r.ptr, before |-> metadata_handler,
                         allocs |-> Len(r.heap) - Len(heap),
                         result |-> r.result]
    /\ UNCHANGED <<client_state, c_client, process_handler, srv_name,
                   srv_closed, accepted>>
    /\ UNCHANGED <<handles, frame>>
    /\ UNCHANGED <<srv_active, rt>>

\* ------------------------------------------------------------------ close
\* Client::close: jack_client_close(c_client) answered with `ret`
close(cl, ret) ==
    [result |-> IF ret = 0 THEN Ok(<<>>) ELSE Err("some error should go here"),
     calls |-> <<[fn |-> "jack_client_close", client |-> cl]>>]

Close ==
    /\ client_state = "live"
    /\ \E ret \in IntReplies :
          LET r == close(c_client, ret)
          IN /\ calls' = r.calls
             /\ last' = [op |-> "close", ret |-> ret, result |-> r.result]
             /\ srv_closed' = (srv_closed \/ ret = 0)
             \* a closed client is destroyed at the server, slots included
             /\ srv_cb' = IF ret = 0 THEN [s \in Slots |-> NullPtr]
                          ELSE srv_cb
             \* the server stops the client's realtime thread before it
             \* answers 0: no callback is running then, none starts after
             /\ ret = 0 => rt.pc = "waiting"
             /\ srv_active' = IF ret = 0 THEN FALSE ELSE srv_active
    /\ UNCHANGED <<client_state, c_client, process_handler,
                   metadata_handler, heap, srv_name, accepted>>
    /\ UNCHANGED <<handles, frame>>
    /\ UNCHANGED rt

\* ------------------------------------------------------------------- drop
\* The Client goes out of scope.  Client has no Drop impl: its fields are
\* dropped (both Option<Box<_>>), and no foreign call is made.
drop_client(ph, mh, hp) == Option_drop(Option_drop(hp, ph), mh)

Drop ==
    /\ client_state = "live"
    /\ client_state' = "dropped"
    /\ heap' = drop_client(process_handler, metadata_handler, heap)
    /\ process_handler' = None
    /\ metadata_handler' = None
    /\ calls' = <<>>
    /\ last' = [op |-> "drop"]
    /\ UNCHANGED <<c_client, srv_name, srv_cb, srv_closed, accepted>>
    /\ UNCHANGED <<handles, frame>>
    /\ UNCHANGED <<srv_active, rt>>

\* ------------------------------------------------------------------ ports
\* port_type::DEFAULT_AUDIO_TYPE, port_type::DEFAULT_MIDI_TYPE
DEFAULT_AUDIO_TYPE == "32 bit float mono audio"
DEFAULT_MIDI_TYPE == "8 bit raw midi"
\* port_flags::PORT_IS_INPUT, port_flags::PORT_IS_OUTPUT
PORT_IS_INPUT == 1
PORT_IS_OUTPUT == 2

\* the port pointers jack_port_register answers with: null or a port
NullPort == 0
PortIds == {1, 2}
PortReplies == {NullPort} \cup PortIds

\* the port names the callers pass
PortNames == {s \in Strings : Len(s) = 1}

\* UnknownPortHandle::new(port): a handle is the port pointer and nothing
\* else; direction and sample type exist in the handle's type only
UnknownPortHandle_new(port) == [raw |-> port, as |-> "UnknownPortHandle"]
force_as_input(p, sample) ==
    [raw |-> p.raw, as |-> "InputPortHandle", sample |-> sample]
force_as_output(p, sample) ==
    [raw |-> p.raw, as |-> "OutputPortHandle", sample |-> sample]
\* Port::get_raw
get_raw(p) == p.raw

\* register_port without its opts argument
register_port_drops_flags(cl, name, ptype, opts, port) ==
    [result |-> IF port = NullPort THEN Err(FAILURE)
                ELSE Ok(UnknownPortHandle_new(port)),
     calls |-> <<[fn |-> "jack_port_register", client |-> cl,
                  name |-> CString_new(name), type |-> ptype,
                  flags |-> 0, buffer_size |-> 0]>>]

\* Client::register_port(name, ptype, opts): jack_port_register answered
\* with `port`
register_port(cl, name, ptype, opts, port) ==
    [result |-> IF port = NullPort THEN Err(FAILURE)
                ELSE Ok(UnknownPortHandle_new(port)),
     calls |-> <<[fn |-> "jack_port_register", client |-> cl,
                  name |-> CString_new(name), type |-> ptype,
                  flags |-> opts, buffer_size |-> 0]>>]

register_input_audio_port(cl, name, port) ==
    LET p == register_port(cl, name, DEFAULT_AUDIO_TYPE, PORT_IS_INPUT, port)
    IN [result |-> IF p.result.kind = "Ok"
                   THEN Ok(force_as_input(p.result.v, "DefaultAudioSample"))
                   ELSE p.result,
        calls |-> p.calls]

register_input_midi_port(cl, name, port) ==
    LET p == register_port(cl, name, DEFAULT_MIDI_TYPE, PORT_IS_INPUT, port)
    IN [result |-> IF p.result.kind = "Ok"
                   THEN Ok(force_as_input(p.result.v, "MidiEvent"))
                   ELSE p.result,
        calls |-> p.calls]

register_output_audio_port(cl, name, port) ==
    LET p == register_port(cl, name, DEFAULT_AUDIO_TYPE, PORT_IS_OUTPUT, port)
    IN [result |-> IF p.result.kind = "Ok"
                   THEN Ok(force_as_output(p.result.v, "DefaultAudioSample"))
                   ELSE p.result,
        calls |-> p.calls]

\* what a register_*_port call leaves behind: the foreign call, the result,
\* and the handle (if any) in the caller's hands
Registered(op, name, port, r) ==
    /\ calls' = r.calls
    /\ handles' = IF r.result.kind = "Ok"
                  THEN handles \cup {get_raw(r.result.v)}
                  ELSE handles
    /\ last' = [op |-> op, name |-> name, port |-> port, result |-> r.result]
    /\ UNCHANGED <<client_state, c_client, process_handler,
                   metadata_handler, heap, srv_name, srv_cb, srv_closed,
                   accepted, frame>>
    /\ UNCHANGED <<srv_active, rt>>

RegisterInputAudioPort ==
    /\ client_state = "live"
    /\ \E name \in PortNames, port \in PortReplies :
          Registered("register_input_audio_port", name, port,
                     register_input_audio_port(c_client, name, port))

RegisterInputMidiPort ==
    /\ client_state = "live"
    /\ \E name \in PortNames, port \in PortReplies :
          Registered("register_input_midi_port", name, port,
                     register_input_midi_port(c_client, name, port))

RegisterOutputAudioPort ==
    /\ client_state = "live"
    /\ \E name \in PortNames, port \in PortReplies :
          Registered("register_output_audio_port", name, port,
                     register_output_audio_port(c_client, name, port))

\* Client::unregister_port(port): jack_port_unregister answered with `ret`
unregister_port(cl, port, ret) ==
    [result |-> IF ret = 0 THEN Ok(<<>>) ELSE Err(FAILURE),
     calls |-> <<[fn |-> "jack_port_unregister", client |-> cl,
                  port |-> get_raw(port)]>>]

\* The caller hands in a handle it holds.  The method takes the handle by
\* value, but nothing keeps the caller from holding another handle of the
\* same port, so the raw pointer stays among `handles`.
UnregisterPort ==
    /\ client_state = "live"
    /\ \E raw \in handles, ret \in IntReplies :
          LET h == UnknownPortHandle_new(raw)
              r == unregister_port(c_client, h, ret)
          IN /\ calls' = r.calls
             /\ last' = [op |-> "unregister_port", handle |-> h, ret |-> ret,
                         result |-> r.result]
    /\ UNCHANGED <<client_state, c_client, process_handler,
                   metadata_handler, heap, srv_name, srv_cb, srv_closed,
                   accepted, handles, frame>>
    /\ UNCHANGED <<srv_active, rt>>

\* ------------------------------------------------------ connect, disconnect
\* The C int results jack_connect and jack_disconnect answer with: success,
\* the single flag FAILURE, two known flags (17 = 16 + 1), a negative error
\* code, and a positive word with a bit no Status flag has.
ResultReplies == {0, FAILURE, 17, -1, 8192}

\* `res as u32`: the 32-bit two's complement word of a C int, kept as its
\* two 16-bit halves (the whole word does not fit TLC's integers)
as_u32(res) == [hi |-> (res \div 65536) % 65536, lo |-> res % 65536]

\* Status::from_bits on such a word: every known flag is below bit 13
Status_from_bits_u32(w) ==
    IF w.hi = 0 THEN Status_from_bits(w.lo) ELSE None

\* Client::connect_ports(port1, port2): jack_connect answered with `res`
\* (the println! of the error code is not modelled)
connect_ports(cl, port1, port2, res) ==
    [result |-> IF res = 0 THEN Ok(<<>>) ELSE Err(FAILURE),
     calls |-> <<[fn |-> "jack_connect", client |-> cl,
                  port1 |-> CString_new(port1),
                  port2 |-> CString_new(port2)]>>]

ConnectPorts ==
    /\ client_state = "live"
    /\ \E port1 \in PortNames, port2 \in PortNames, res \in ResultReplies :
          LET r == connect_ports(c_client, port1, port2, res)
          IN /\ calls' = r.calls
             /\ last' = [op |-> "connect_ports", port1 |-> port1,
                         port2 |-> port2, res |-> res, result |-> r.result]
    /\ UNCHANGED <<client_state, c_client, process_handler,
                   metadata_handler, heap, srv_name, srv_cb, srv_closed,
                   accepted, handles, frame>>
    /\ UNCHANGED <<srv_active, rt>>

\* disconnect_ports reporting every failure as FAILURE
disconnect_ports_generic_failure(cl, port1, port2, res) ==
    [result |-> IF res = 0 THEN Ok(<<>>) ELSE Err(FAILURE),
     calls |-> <<[fn |-> "jack_disconnect", client |-> cl,
                  port1 |-> CString_new(port1),
                  port2 |-> CString_new(port2)]>>]

\* disconnect_ports unwrapping on every failure
disconnect_ports_panics_on_failure(cl, port1, port2, res) ==
    [result |-> IF res = 0 THEN Ok(<<>>) ELSE Panic,
     calls |-> <<[fn |-> "jack_disconnect", client |-> cl,
                  port1 |-> CString_new(port1),
                  port2 |-> CString_new(port2)]>>]

\* Client::disconnect_ports(port1, port2): jack_disconnect answered with
\* `res`; from_bits(res as u32).unwrap() panics on None
disconnect_ports(cl, port1, port2, res) ==
    LET st == Status_from_bits_u32(as_u32(res))
    IN [result |-> IF res = 0 THEN Ok(<<>>)
                   ELSE IF st.some THEN Err(st.v)
                   ELSE Panic,
        calls |-> <<[fn |-> "jack_disconnect", client |-> cl,
                     port1 |-> CString_new(port1),
                     port2 |-> CString_new(port2)]>>]

DisconnectPorts ==
    /\ client_state = "live"
    /\ \E port1 \in PortNames, port2 \in PortNames, res \in ResultReplies :
          LET r == disconnect_ports(c_client, port1, port2, res)
          IN /\ calls' = r.calls
             /\ last' = [op |-> "disconnect_ports", port1 |-> port1,
                         port2 |-> port2, res |-> res, result |-> r.result]
    /\ UNCHANGED <<client_state, c_client, process_handler,
                   metadata_handler, heap, srv_name, srv_cb, srv_closed,
                   accepted, handles, frame>>
    /\ UNCHANGED <<srv_active, rt>>

\* --------------------------------------------------------------- get_name
\* Client::get_name() on an open Client
GetName ==
    /\ client_state = "live"
    /\ LET r == get_name(c_client, srv_name)
       IN /\ calls' = <<r.call>>
          /\ last' = [op |-> "get_name", result |-> r.name]
    /\ UNCHANGED <<client_state, c_client, process_handler,
                   metadata_handler, heap, srv_name, srv_cb, srv_closed,
                   accepted, handles, frame>>
    /\ UNCHANGED <<srv_active, rt>>

\* The server gives the client another name (nothing of the library runs).
ServerRename ==
    /\ client_state = "live"
    /\ ~srv_closed
    /\ \E n \in ServerNames \ {srv_name} : srv_name' = n
    /\ calls' = <<>>
    /\ last' = [op |-> "server_rename"]
    /\ UNCHANGED <<client_state, c_client, process_handler,
                   metadata_handler, heap, srv_cb, srv_closed, accepted,
                   handles, frame>>
    /\ UNCHANGED <<srv_active, rt>>

\* ------------------------------------ the two set_*_handler, by statement
\* The same two methods, one statement at a time.  `frame` holds the method
\* running and its locals: where it is (pc), the raw pointer `ptr`, the
\* handler's list `cbs`, the server's answer `ret`.  Between Box::new and
\* Box::into_raw, and again after Box::from_raw, the local `b` owns the box
\* at `ptr`.
Methods == {"set_process_handler", "set_metadata_handler"}

\* the field of the Client the method assigns
FieldOf(m) ==
    IF m = "set_process_handler" THEN process_handler ELSE metadata_handler

\* `let b = Box::new(handler);` of method m; `cbs` is what the handler's
\* callbacks_of_interest() returns (asked for in set_metadata_handler only)
BoxNew(m, cbs) ==
    /\ heap' = Box_new(heap)
    /\ frame' = [pc |-> "boxed", method |-> m, ptr |-> Len(heap) + 1,
                 cbs |-> cbs, ret |-> 0]
    /\ calls' = <<>>
    /\ last' = [op |-> "none"]
    /\ UNCHANGED <<client_state, c_client, process_handler,
                   metadata_handler, srv_name, srv_cb, srv_closed, accepted,
                   handles>>
    /\ UNCHANGED <<srv_active, rt>>

BeginSetProcessHandler ==
    /\ client_state = "live"
    /\ frame = Idle
    /\ Len(heap) < MaxAllocs
    /\ BoxNew("set_process_handler", <<>>)

BeginSetMetadataHandler ==
    /\ client_state = "live"
    /\ frame = Idle
    /\ Len(heap) < MaxAllocs
    /\ \E cbs \in InterestLists : BoxNew("set_metadata_handler", cbs)

\* `let ptr = Box::into_raw(b);`
BoxIntoRaw ==
    /\ frame.pc = "boxed"
    /\ frame' = [frame EXCEPT !.pc = "raw"]
    /\ UNCHANGED <<client_state, c_client, process_handler,
                   metadata_handler, heap, srv_name, srv_cb, srv_closed,
                   accepted, handles, calls, last>>
    /\ UNCHANGED <<srv_active, rt>>

\* what a method leaves in `last` when it returns
Returned(result) ==
    [op |-> frame.method, cbs |-> frame.cbs, ptr |-> frame.ptr,
     before |-> FieldOf(frame.method), result |-> result]

\* `let ret = unsafe { jack_set_process_callback(c_client, .., ptr) };`
InstallProcessCallback ==
    /\ frame.pc = "raw"
    /\ frame.method = "set_process_handler"
    /\ \E ret \in IntReplies :
          LET call == [fn |-> "jack_set_process_callback",
                       client |-> c_client, ctx |-> frame.ptr, ret |-> ret]
          IN /\ calls' = <<call>>
             /\ srv_cb' = Server_install(srv_cb, <<call>>)
             /\ accepted' = IF ret = 0 THEN accepted \cup {frame.ptr}
                            ELSE accepted
             /\ frame' = [frame EXCEPT !.pc = "called", !.ret = ret]
    /\ UNCHANGED <<client_state, c_client, process_handler,
                   metadata_handler, heap, srv_name, srv_closed, handles,
                   last>>
    /\ UNCHANGED <<srv_active, rt>>

\* `let ret = unsafe { for h in cbs { .. } ret };`: the whole loop; a kind of
\* the `_` arm panics and the method is left with the box still raw
InstallMetadataCallbacks ==
    /\ frame.pc = "raw"
    /\ frame.method = "set_metadata_handler"
    /\ \E rets \in ServerAnswers(Len(frame.cbs)) :
          LET lp == metadata_loop(c_client, frame.cbs, rets, frame.ptr, 1,
                                  [ret |-> 0, calls |-> <<>>,
                                   panicked |-> FALSE])
          IN /\ calls' = lp.calls
             /\ srv_cb' = Server_install(srv_cb, lp.calls)
             /\ frame' = IF lp.panicked THEN Idle
                         ELSE [frame EXCEPT !.pc = "called", !.ret = lp.ret]
             /\ last' = IF lp.panicked THEN Returned(Panic) ELSE last
    /\ UNCHANGED <<client_state, c_client, process_handler,
                   metadata_handler, heap, srv_name, srv_closed, accepted,
                   handles>>
    /\ UNCHANGED <<srv_active, rt>>

\* `if ret != 0 { Err(status::FAILURE) }`
ReturnFailure ==
    /\ frame.pc = "called"
    /\ frame.ret # 0
    /\ frame' = Idle
    /\ last' = Returned(Err(FAILURE))
    /\ UNCHANGED <<client_state, c_client, process_handler,
                   metadata_handler, heap, srv_name, srv_cb, srv_closed,
                   accepted, handles, calls>>
    /\ UNCHANGED <<srv_active, rt>>

\* `let b = unsafe { Box::from_raw(ptr) };`
BoxFromRaw ==
    /\ frame.pc = "called"
    /\ frame.ret = 0
    /\ frame' = [frame EXCEPT !.pc = "reowned"]
    /\ UNCHANGED <<client_state, c_client, process_handler,
                   metadata_handler, heap, srv_name, srv_cb, srv_closed,
                   accepted, handles, calls, last>>
    /\ UNCHANGED <<srv_active, rt>>

\* the assignment keeping the old box alive (mem::forget of the old value)
assign_handler_forgets_old(field, b, hp) ==
    [field |-> Some(b), heap |-> hp]

\* `self.<field> = Some(b);`: the value the field held is dropped, the new
\* one is stored
assign_handler(field, b, hp) ==
    [field |-> Some(b), heap |-> Option_drop(hp, field)]

\* `self.process_handler = Some(b); Ok(())` and its metadata twin
AssignHandler ==
    /\ frame.pc = "reowned"
    /\ LET a == assign_handler(FieldOf(frame.method), frame.ptr, heap)
       IN /\ heap' = a.heap
          /\ IF frame.method = "set_process_handler"
             THEN /\ process_handler' = a.field
                  /\ UNCHANGED metadata_handler
             ELSE /\ metadata_handler' = a.field
                  /\ UNCHANGED process_handler
    /\ frame' = Idle
    /\ last' = Returned(Ok(<<>>))
    /\ UNCHANGED <<client_state, c_client, srv_name, srv_cb, srv_closed,
                   accepted, handles, calls>>
    /\ UNCHANGED <<srv_active, rt>>

\* --------------------------------------------------------------- activate
MaxCallbacks == 2

\* Client::activate: jack_activate(c_client) answered with `ret`
activate(cl, ret) ==
    [result |-> IF ret # 0 THEN Err(FAILURE) ELSE Ok(<<>>),
     calls |-> <<[fn |-> "jack_activate", client |-> cl]>>]

Activate ==
    /\ client_state = "live"
    /\ \E ret \in IntReplies :
          LET r == activate(c_client, ret)
          IN /\ calls' = r.calls
             /\ last' = [op |-> "activate", ret |-> ret, result |-> r.result]
             /\ srv_active' = (srv_active \/ (ret = 0 /\ ~srv_closed))
    /\ UNCHANGED <<client_state, c_client, process_handler,
                   metadata_handler, heap, srv_name, srv_cb, srv_closed,
                   accepted, handles, frame, rt>>

\* ------------------------------------------------- the process trampoline
\* the frame counts the server passes, the codes a handler's process returns
NumFramesValues == {64, 128}
HandlerResults == {0, 1, -1}

\* process_callback::<T>(nframes, args) up to the call of the handler:
\* `let this = args as *mut T; let ctx = CallbackContext::new();
\*  (*this).process(&ctx, nframes)`.  `made` CallbackContext values exist
\* so far; the one made here is the next.
process_callback_dispatch(nframes, args, made) ==
    [this |-> args, ctx |-> made + 1, nframes |-> nframes]

\* the trampoline answering the server 0 whatever the handler returned
process_callback_swallows_result(r) == 0

\* the value of process_callback: the value of its tail expression, the
\* i32 that (*this).process(..) returned, as a c_int
process_callback_return(r) == r

\* The server's realtime thread enters the trampoline with the context
\* pointer it holds for the process slot.  `was_live` remembers whether the
\* box behind it was allocated and not released at that moment.
ProcessCallbackEnter ==
    /\ srv_active
    /\ ~srv_closed
    /\ srv_cb["process"] # NullPtr
    /\ rt.pc = "waiting"
    /\ rt.made < MaxCallbacks
    /\ \E nframes \in NumFramesValues :
          LET d == process_callback_dispatch(nframes, srv_cb["process"],
                                             rt.made)
          IN rt' = [pc |-> "in_process", made |-> d.ctx,
                    args |-> srv_cb["process"], nframes |-> nframes,
                    this |-> d.this,
                    got |-> [ctx |-> d.ctx, nframes |-> d.nframes],
                    was_live |-> heap[d.this].frees = 0]
    /\ UNCHANGED <<client_state, c_client, process_handler,
                   metadata_handler, heap, srv_name, srv_cb, srv_closed,
                   accepted, handles, frame, srv_active, calls, last>>

\* The handler's process returns `r`; the trampoline returns to the server.
ProcessCallbackReturn ==
    /\ rt.pc = "in_process"
    /\ \E r \in HandlerResults :
          rt' = [pc |-> "waiting", made |-> rt.made, handler_ret |-> r,
                 returned |-> process_callback_return(r)]
    /\ UNCHANGED <<client_state, c_client, process_handler,
                   metadata_handler, heap, srv_name, srv_cb, srv_closed,
                   accepted, handles, frame, srv_active, calls, last>>

\* ---------------------------------------------------------- specifications
\* Opening a client: the two constructors, over every name, options value
\* and server reply of the sets above.
NextOpen ==
    \/ Open
    \/ OpenConnectionTo

SpecOpen == Init /\ [][NextOpen]_vars

\* A Client as open_helper's Ok arm leaves it: a non-null handle (the first
\* of HandleReplies), no handler recorded, nothing allocated, nothing
\* installed at the server.
InitLive ==
    /\ client_state = "live"
    /\ srv_active = FALSE
    /\ rt = Waiting
    /\ handles = {}
    /\ frame = Idle
    /\ c_client = 1
    /\ process_handler = None
    /\ metadata_handler = None
    /\ heap = <<>>
    /\ srv_name = CString_new(<<1>>)
    /\ srv_cb = [s \in Slots |-> NullPtr]
    /\ srv_closed = FALSE
    /\ accepted = {}
    /\ calls = <<>>
    /\ last = [op |-> "none"]

\* The life of an opened Client.
Next ==
    \/ SetProcessHandler
    \/ SetMetadataHandler
    \/ Close
    \/ Drop

Spec == InitLive /\ [][Next]_vars

\* The ports, connections and name of an opened Client.
NextPorts ==
    \/ RegisterInputAudioPort
    \/ RegisterInputMidiPort
    \/ RegisterOutputAudioPort
    \/ UnregisterPort
    \/ ConnectPorts
    \/ DisconnectPorts
    \/ GetName
    \/ ServerRename
    \/ Close

SpecPorts == InitLive /\ [][NextPorts]_vars

\* The methods that decode a word of the server into a Status: the two
\* constructors, then disconnect_ports on the Client they made.
NextDecode ==
    \/ Open
    \/ OpenConnectionTo
    \/ DisconnectPorts

SpecDecode == Init /\ [][NextDecode]_vars

\* The two set_*_handler methods of an opened Client, statement by statement.
NextSteps ==
    \/ BeginSetProcessHandler
    \/ BeginSetMetadataHandler
    \/ BoxIntoRaw
    \/ InstallProcessCallback
    \/ InstallMetadataCallbacks
    \/ ReturnFailure
    \/ BoxFromRaw
    \/ AssignHandler

SpecSteps == InitLive /\ [][NextSteps]_vars

\* An opened Client and the server's realtime thread side by side: the
\* application thread installs process handlers, activates, closes and
\* drops the Client while the server runs the process trampoline.
NextRealtime ==
    \/ SetProcessHandler
    \/ Activate
    \/ ProcessCallbackEnter
    \/ ProcessCallbackReturn
    \/ Close
    \/ Drop

SpecRealtime == InitLive /\ [][NextRealtime]_vars
\* ====================================================== claims: opening
OpenOps == {"open", "open_connection_to"}

\* the name queries among the foreign calls of the last method
NameQueries == SelectSeq(calls, LAMBDA c : c.fn = "jack_get_client_name")

\* the jack_client_open calls among the foreign calls of the last method
OpenCalls == SelectSeq(calls, LAMBDA c : c.fn = "jack_client_open")

\* bit `flag` is set in the word `bits`
HasFlag(bits, flag) == (bits \div flag) % 2 = 1

\* the status word holds no bit beyond the thirteen the decoder knows
Recognised(bits) == bits < 8192

\* C1: for every requested name, options value and server reply whose
\* status is recognised, open returns Ok iff the server returned a non-null
\* handle; on Err the error is exactly the status the server returned; on
\* Ok with a status without NAME_NOT_UNIQUE the assigned name is the
\* requested name.
C1_OpenContract ==
    (last.op \in OpenOps /\ Recognised(last.status)) =>
        /\ last.result.kind \in {"Ok", "Err"}
        /\ (last.result.kind = "Ok") <=> (last.cl # NullHandle)
        /\ last.result.kind = "Err" => last.result.e = last.status
        /\ (last.result.kind = "Ok" /\ ~HasFlag(last.status, NAME_NOT_UNIQUE))
               => last.result.v.name = last.name

\* an open refused by the server with INIT_FAILURE | FAILURE, reported as such
C1_Witness ==
    /\ last.op = "open"
    /\ last.cl = NullHandle
    /\ last.status = INIT_FAILURE + FAILURE
    /\ last.result = Err(INIT_FAILURE + FAILURE)

\* C2: when the reply has a non-null handle and a status with
\* NAME_NOT_UNIQUE, and the options do not ask for the exact name, the
\* assigned name is the name the server holds for that handle, asked for by
\* exactly one name query on that handle.
C2_NotUniqueQueriesOnce ==
    (/\ last.op \in OpenOps
     /\ Recognised(last.status)
     /\ last.cl # NullHandle
     /\ HasFlag(last.status, NAME_NOT_UNIQUE)
     /\ ~HasFlag(last.opts, USE_EXACT_NAME)) =>
        /\ last.result.kind = "Ok"
        /\ last.result.v.name \o <<0>> = last.held
        /\ Len(NameQueries) = 1
        /\ NameQueries[1].client = last.cl

\* the server renamed the client: the name returned is not the one asked for
C2_Witness ==
    /\ last.op = "open"
    /\ last.cl # NullHandle
    /\ last.status = NAME_NOT_UNIQUE
    /\ ~HasFlag(last.opts, USE_EXACT_NAME)
    /\ last.result.kind = "Ok"
    /\ last.result.v.name # last.name
    /\ Len(NameQueries) = 1

\* C3: when the reply has a null handle and a status with NAME_NOT_UNIQUE,
\* open fails with that status and issues no name query.
C3_NotUniqueNullFails ==
    (/\ last.op \in OpenOps
     /\ Recognised(last.status)
     /\ last.cl = NullHandle
     /\ HasFlag(last.status, NAME_NOT_UNIQUE)) =>
        /\ last.result = Err(last.status)
        /\ NameQueries = <<>>

\* the exact name was asked for and the server refused it
C3_Witness ==
    /\ last.op = "open"
    /\ HasFlag(last.opts, USE_EXACT_NAME)
    /\ last.cl = NullHandle
    /\ last.status = FAILURE + NAME_NOT_UNIQUE
    /\ last.result = Err(FAILURE + NAME_NOT_UNIQUE)
    /\ Len(calls) = 1

\* C4: every call of open or open_connection_to issues exactly one
\* jack_client_open, whatever the outcome, and no name query when the
\* returned status is without NAME_NOT_UNIQUE.
C4_OneOpenCallNoExtraQuery ==
    last.op \in OpenOps =>
        /\ Len(OpenCalls) = 1
        /\ calls[1].fn = "jack_client_open"
        /\ ~HasFlag(last.status, NAME_NOT_UNIQUE) => NameQueries = <<>>

\* a successful open_connection_to whose name was unique, while the server
\* holds another name than the requested one: one foreign call in all
C4_Witness ==
    /\ last.op = "open_connection_to"
    /\ last.result.kind = "Ok"
    /\ ~HasFlag(last.status, NAME_NOT_UNIQUE)
    /\ last.held # last.name \o <<0>>
    /\ Len(calls) = 1

\* C5: open_connection_to passes the caller's options with SERVER_NAME
\* unioned in, and the server name; open passes the options unchanged and no
\* server name.
C5_OptionsAndServerName ==
    /\ last.op = "open_connection_to" =>
          /\ calls[1].options =
                 last.opts + (IF HasFlag(last.opts, JackServerName)
                              THEN 0 ELSE JackServerName)
          /\ calls[1].server_name = last.server \o <<0>>
          /\ calls[1].client_name = last.name \o <<0>>
    /\ last.op = "open" =>
          /\ calls[1].options = last.opts
          /\ calls[1].server_name = NullStr
          /\ calls[1].client_name = last.name \o <<0>>

\* open_connection_to with options that lack SERVER_NAME: the flag is added
C5_Witness ==
    /\ last.op = "open_connection_to"
    /\ last.opts = NO_START_SERVER
    /\ calls[1].options = NO_START_SERVER + JackServerName
    /\ calls[1].server_name # NullStr

\* ===================================================== claims: handlers
\* the kinds whose arm in set_metadata_handler is commented out
UnimplementedKinds ==
    {"Shutdown", "Freewheel", "BufferSize", "ClientRegistration",
     "PortRegistration", "PortRename", "GraphOrder"}

\* C6: while the Client is open (close has not been performed), every
\* context pointer the server holds for a callback slot refers to a handler
\* allocation that has not been freed.
C6_NoDanglingContext ==
    ~srv_closed =>
        \A s \in Slots : srv_cb[s] # NullPtr => heap[srv_cb[s]].frees = 0

\* C7: a process handler the server accepts is one heap allocation, released
\* exactly once, at Client drop or at replacement by a later accepted
\* handler: as long as the Client records it it is not released, and from
\* then on it has been released once.
C7_AcceptedBoxReleasedOnce ==
    /\ last.op = "set_process_handler" => last.allocs = 1
    /\ \A p \in accepted :
          heap[p].frees = (IF process_handler = Some(p) THEN 0 ELSE 1)

\* two accepted handlers and a dropped Client: the first was released at its
\* replacement, the second at the drop
C7_Witness ==
    /\ client_state = "dropped"
    /\ accepted = {1, 2}
    /\ heap[1].frees = 1
    /\ heap[2].frees = 1

\* C8: if the server refuses the process callback, set_process_handler
\* returns Err(Status::FAILURE) and the recorded process handler is the same
\* after the call as before it.
C8_RefusedRecordsNothing ==
    (last.op = "set_process_handler" /\ last.ret # 0) =>
        /\ last.result = Err(FAILURE)
        /\ process_handler = last.before

\* a refused replacement: the handler recorded before is still recorded
C8_Witness ==
    /\ last.op = "set_process_handler"
    /\ last.ret # 0
    /\ last.before = Some(1)
    /\ process_handler = Some(1)
    /\ last.result = Err(FAILURE)

\* C9: if the server refuses the process callback, the allocation made for
\* the rejected handler is released before set_process_handler returns.
C9_RefusedBoxReclaimed ==
    (last.op = "set_process_handler" /\ last.ret # 0) =>
        heap[last.ptr].frees = 1

\* C10: a handler asking for an unimplemented kind makes
\* set_metadata_handler fail without any other kind of the list being
\* registered with the server in that call, wherever the kind is listed.
C10_UnimplementedRegistersNothing ==
    (/\ last.op = "set_metadata_handler"
     /\ \E i \in DOMAIN last.cbs : last.cbs[i] \in UnimplementedKinds) =>
        /\ last.result.kind # "Ok"
        /\ \A i \in DOMAIN calls : calls[i].ret # 0

\* ============================================ claims: metadata registration
\* the installing call of each implemented kind, as the match arms name it
InstallerOf(h) ==
    CASE h = "SampleRate" -> "jack_set_sample_rate_callback"
      [] h = "PortConnect" -> "jack_set_port_connect_callback"
      [] h = "Xrun" -> "jack_set_xrun_callback"
      [] OTHER -> "unimplemented"

\* the server slot each implemented kind is installed in
SlotOfKind(h) ==
    CASE h = "SampleRate" -> "sample_rate"
      [] h = "PortConnect" -> "port_connect"
      [] h = "Xrun" -> "xrun"
      [] OTHER -> "none"

\* the last installing call of the last method was refused by the server
Refused == Len(calls) > 0 /\ calls[Len(calls)].ret # 0

\* C11: set_metadata_handler registers the kinds one by one in the order of
\* the handler's list; the first kind the server refuses is the last one
\* registered, the kinds registered before it stay installed at the server,
\* and the call returns Err(FAILURE) with the recorded handler unchanged.
C11_InOrderStopAtRefusal ==
    last.op = "set_metadata_handler" =>
        /\ Len(calls) <= Len(last.cbs)
        /\ \A i \in 1..Len(calls) :
              /\ calls[i].fn = InstallerOf(last.cbs[i])
              /\ i < Len(calls) => calls[i].ret = 0
        /\ Refused =>
              /\ last.result = Err(FAILURE)
              /\ metadata_handler = last.before
              /\ \A i \in 1..(Len(calls) - 1) :
                    srv_cb[SlotOfKind(last.cbs[i])] = last.ptr

\* sample-rate accepted, xrun refused: the sample-rate slot keeps the context
C11_Witness ==
    /\ last.op = "set_metadata_handler"
    /\ last.cbs = <<"SampleRate", "Xrun">>
    /\ Len(calls) = 2
    /\ Refused
    /\ srv_cb["sample_rate"] = last.ptr
    /\ srv_cb["xrun"] # last.ptr
    /\ last.result = Err(FAILURE)

\* C12: when a per-kind registration is refused, the box allocated for the
\* handler by this call has been released when the call returns.
C12_MetadataBoxReclaimed ==
    (last.op = "set_metadata_handler" /\ Refused) =>
        heap[last.ptr].frees = 1

\* C13: one set_metadata_handler call boxes the handler exactly once, every
\* installing call of it carries the pointer to that box as its context,
\* and on full success the Client's metadata_handler owns exactly that box.
C13_OneBoxOneContext ==
    last.op = "set_metadata_handler" =>
        /\ last.allocs = 1
        /\ last.ptr = Len(heap)
        /\ \A i \in 1..Len(calls) : calls[i].ctx = last.ptr
        /\ last.result.kind = "Ok" =>
              /\ metadata_handler = Some(last.ptr)
              /\ heap[last.ptr].frees = 0

\* two kinds registered with one context, the handler recorded
C13_Witness ==
    /\ last.op = "set_metadata_handler"
    /\ last.result.kind = "Ok"
    /\ Len(calls) = 2
    /\ calls[1].ctx = calls[2].ctx
    /\ calls[1].fn # calls[2].fn
    /\ metadata_handler = Some(last.ptr)

\* ====================================== claims: ports, connections, names
\* C14: once close() has succeeded, no method hands the server the
\* identifier of a port handle derived from the Client.
C14_ClosedInvalidatesHandles ==
    srv_closed =>
        \A i \in 1..Len(calls) :
            calls[i].fn = "jack_port_unregister" =>
                calls[i].port \notin handles

\* the C int `w`, read as an unsigned word, has known Status flags only
KnownBitsOnly(w) == 0 <= w /\ w < 8192

\* C15: whatever handle, status word or int result the server answers
\* with (negative results included), open, open_connection_to and
\* disconnect_ports panic only when that word, read as an unsigned
\* bitmask, has a bit the Status decoder does not know; a failure reported
\* with known bits is returned, not panicked on.
C15_PanicOnlyOnUnknownBits ==
    /\ last.op \in OpenOps =>
          (last.result = Panic => ~KnownBitsOnly(last.status))
    /\ last.op = "disconnect_ports" =>
          (last.result = Panic => ~KnownBitsOnly(last.res))

\* jack_disconnect answered -1, which is 0xFFFFFFFF as u32: a panic
C15_Witness ==
    /\ last.op = "disconnect_ports"
    /\ last.res = -1
    /\ last.result = Panic

\* C16 as stated: connect_ports and disconnect_ports return Ok iff the
\* server answers 0; on any other answer connect_ports returns
\* Err(FAILURE) and disconnect_ports returns Err of the non-empty Status
\* decoded from the answer.
C16_OkIffZeroElseStatus ==
    /\ last.op = "connect_ports" =>
          /\ (last.result.kind = "Ok") <=> (last.res = 0)
          /\ last.res # 0 => last.result = Err(FAILURE)
    /\ last.op = "disconnect_ports" =>
          /\ (last.result.kind = "Ok") <=> (last.res = 0)
          /\ last.res # 0 =>
                /\ last.result.kind = "Err"
                /\ last.result.e # 0

\* C16 amended: Ok iff the server answers 0; on any other answer
\* connect_ports returns Err(FAILURE); disconnect_ports returns Err of the
\* Status whose bits are the answer when the answer has known flags only,
\* and panics on every other answer (every negative one among them).
C16_OkIffZeroElseStatusOrPanic ==
    /\ last.op = "connect_ports" =>
          /\ (last.result.kind = "Ok") <=> (last.res = 0)
          /\ last.res # 0 => last.result = Err(FAILURE)
    /\ last.op = "disconnect_ports" =>
          /\ (last.result.kind = "Ok") <=> (last.res = 0)
          /\ (last.res # 0 /\ KnownBitsOnly(last.res)) =>
                last.result = Err(last.res)
          /\ ~KnownBitsOnly(last.res) => last.result = Panic

\* jack_disconnect answered 17: the Status of the two flags 16 and 1
C16_Witness ==
    /\ last.op = "disconnect_ports"
    /\ last.res = 17
    /\ last.result = Err(17)

RegisterOps ==
    {"register_input_audio_port", "register_input_midi_port",
     "register_output_audio_port"}

\* the port type and direction flag of each helper
TypeOfHelper(op) ==
    IF op = "register_input_midi_port" THEN "8 bit raw midi"
    ELSE "32 bit float mono audio"
FlagOfHelper(op) == IF op = "register_output_audio_port" THEN 2 ELSE 1

\* C17: every register_*_port helper makes one jack_port_register call
\* with the port type and the direction flag of that helper; it returns
\* Err(FAILURE) iff the server answers with a null port, and otherwise a
\* handle wrapping the port the server answered with.  unregister_port on a
\* handle got that way passes the handle's port to jack_port_unregister
\* and returns Ok iff the server answers 0.
C17_RegisterThenUnregister ==
    /\ last.op \in RegisterOps =>
          /\ Len(calls) = 1
          /\ calls[1].fn = "jack_port_register"
          /\ calls[1].client = c_client
          /\ calls[1].name = last.name \o <<0>>
          /\ calls[1].type = TypeOfHelper(last.op)
          /\ calls[1].flags = FlagOfHelper(last.op)
          /\ (last.result = Err(FAILURE)) <=> (last.port = NullPort)
          /\ last.port # NullPort =>
                /\ last.result.kind = "Ok"
                /\ last.result.v.raw = last.port
                /\ last.port \in handles
    /\ last.op = "unregister_port" =>
          /\ last.handle.raw \in handles
          /\ Len(calls) = 1
          /\ calls[1].fn = "jack_port_unregister"
          /\ calls[1].client = c_client
          /\ calls[1].port = last.handle.raw
          /\ (last.result.kind = "Ok") <=> (last.ret = 0)
          /\ last.ret # 0 => last.result = Err(FAILURE)

\* the port the server answered with at registration, unregistered
C17_Witness ==
    /\ last.op = "unregister_port"
    /\ handles = {2}
    /\ calls[1].port = 2
    /\ last.result.kind = "Ok"

\* C18: every get_name call makes one jack_get_client_name call on the
\* Client's connection and returns the name the server holds at that
\* moment.
C18_GetNameNeverCaches ==
    last.op = "get_name" =>
        /\ calls = <<[fn |-> "jack_get_client_name", client |-> c_client]>>
        /\ last.result \o <<0>> = srv_name

\* the server renamed the client since it was opened; get_name tells the
\* new name
C18_Witness ==
    /\ last.op = "get_name"
    /\ srv_name = <<2, 1, 0>>
    /\ last.result = <<2, 1>>

\* ================================================ claims: handler lifecycle
\* the handler field `after` of a Client that is still there follows `before`
\* as the slot's lifecycle allows: a recorded handler stays recorded, and
\* is another one only when the method `op` has just recorded its own box
SlotKeepsHandler(before, after, op) ==
    before.some =>
        /\ after.some
        /\ after # before =>
              /\ last'.op = op
              /\ last'.result.kind = "Ok"
              /\ after = Some(last'.ptr)
              /\ last'.ptr # before.v

\* C19: for each handler slot of a Client that has not been torn down, a
\* recorded handler never becomes absent again, whatever set_*_handler
\* calls follow and however the server answers them; the recorded handler
\* changes only when a later call of the slot's method is accepted, and
\* then it is that call's handler.
C19_RegisteredStaysRegistered ==
    [][client_state' = "live" =>
          /\ SlotKeepsHandler(process_handler, process_handler',
                              "set_process_handler")
          /\ SlotKeepsHandler(metadata_handler, metadata_handler',
                              "set_metadata_handler")]_vars

\* a second process handler was refused: the first one is still recorded
C19_Witness ==
    /\ last.op = "set_process_handler"
    /\ last.before.some
    /\ last.result = Err(FAILURE)
    /\ process_handler = last.before

\* the boxes of method m's slot that have an owner and are not released:
\* the one the Client's field holds and, while m runs, the one its local
\* `b` holds
LiveOwned(m) ==
    LET field == FieldOf(m)
        of_field == IF field.some THEN {field.v} ELSE {}
        of_local == IF frame.pc \in {"boxed", "reowned"} /\ frame.method = m
                    THEN {frame.ptr} ELSE {}
    IN {p \in of_field \cup of_local : heap[p].frees = 0}

\* a call the server has accepted is replacing an installed handler
Replacing ==
    /\ frame.pc \in {"called", "reowned"}
    /\ frame.ret = 0
    /\ FieldOf(frame.method).some

\* C20 as stated: at every point of a set_*_handler call that replaces an
\* installed handler, at most one handler allocation of the slot is live
\* and owned.
C20_NeverBothOwned ==
    Replacing => Cardinality(LiveOwned(frame.method)) <= 1

\* C20 amended: the box the Client's field records is live at every point;
\* two boxes of a slot are live and owned only while the slot's method
\* runs and its local `b` holds the new one (before Box::into_raw and from
\* Box::from_raw to the assignment); between calls at most one is, and a
\* call that has replaced a handler has released the old box exactly once
\* and recorded the new one.
C20_OldReleasedByAssignment ==
    /\ \A m \in Methods :
          /\ FieldOf(m).some => heap[FieldOf(m).v].frees = 0
          /\ Cardinality(LiveOwned(m)) <= 2
          /\ Cardinality(LiveOwned(m)) = 2 =>
                /\ frame.pc \in {"boxed", "reowned"}
                /\ frame.method = m
          /\ frame = Idle => Cardinality(LiveOwned(m)) <= 1
    /\ (/\ frame = Idle
        /\ last.op \in Methods
        /\ last.result.kind = "Ok"
        /\ last.before.some) =>
           /\ heap[last.before.v].frees = 1
           /\ heap[last.ptr].frees = 0
           /\ FieldOf(last.op) = Some(last.ptr)

\* a process handler replaced: the old box released, the new one recorded
C20_Witness ==
    /\ frame = Idle
    /\ last.op = "set_process_handler"
    /\ last.result.kind = "Ok"
    /\ last.before = Some(1)
    /\ process_handler = Some(2)
    /\ heap[1].frees = 1

\* ================================================== claims: the callbacks
\* C21: every invocation of the process trampoline by the server calls the
\* handler at the context pointer the server holds, with the frame count
\* the server passed and a CallbackContext made for that invocation, and
\* returns to the server the integer the handler's process returned; no
\* step of the trampoline changes the Client's bookkeeping (recorded
\* handlers, their boxes, the connection handle).
C21_TrampolineForwards ==
    [][rt' # rt =>
          /\ UNCHANGED <<client_state, c_client, process_handler,
                         metadata_handler, heap, handles>>
          /\ rt'.pc = "in_process" =>
                /\ rt'.this = srv_cb["process"]
                /\ rt'.got.nframes = rt'.nframes
                /\ rt'.got.ctx = rt.made + 1
          /\ rt'.pc = "waiting" =>
                rt'.returned = rt'.handler_ret]_vars

\* the second invocation has returned the handler's -1 to the server
C21_Witness ==
    /\ rt.made = 2
    /\ rt.pc = "waiting"
    /\ rt.handler_ret = -1
    /\ rt.returned = -1

\* C22: while the realtime thread is inside the process trampoline on a
\* handler box that was live when it entered, nothing the application
\* thread does (replacing the handler, dropping the Client) releases that
\* box.
C22_NoFreeUnderCallback ==
    (rt.pc = "in_process" /\ rt.was_live) => heap[rt.this].frees = 0

\* C23: once close() has returned Ok, no later method of the Client makes
\* a server call with the closed connection handle.
C23_HandleUnusedAfterClose ==
    (srv_closed /\ last.op # "close") =>
        \A i \in 1..Len(calls) : calls[i].client # c_client
====
